---- MODULE Spec2Model ----
(***************************************************************************)
(* Metadata access layer of go-vcloud-director (govcd/metadata_v2.go).     *)
(*                                                                         *)
(* Strings are sequences of tokens, so that concatenation (\o), suffix     *)
(* tests and "contains" are computed and not assumed.  A URL is the token  *)
(* sequence of its text: "/" is a token of its own, so "/metadata/" is     *)
(* <<"/", "metadata", "/">>.  An error is the token sequence of its        *)
(* message; the nil error is the empty sequence.                           *)
(***************************************************************************)
EXTENDS Integers, Sequences, FiniteSets, TLC

\* store: the server's metadata set, one entry or NoEntry per slot
\* tasks: the Tasks created so far; a Task handle is an index
\* mark:  per slot, the synchronous mutation that was applied to it last
\*        (history; NoMark when the last mutation was not a synchronous one),
\*        and in its field over the mark that one replaced
\* call:  the caller's current (or last returned) call
\* calls: per caller, the current call of one of two callers that use the
\*        layer at the same time (specification SpecCallers)
VARIABLES store, tasks, mark, call, calls, receiver

vars == <<store, tasks, mark, call, calls, receiver>>

----------------------------------------------------------------------------
(* Bounds of the model                                                     *)

MaxTasks == 2

----------------------------------------------------------------------------
(* Program constants (types package) and literals of metadata_v2.go        *)

MetadataReadWriteVisibility == "READWRITE"
MetadataReadOnlyVisibility == "READONLY"
MetadataHiddenVisibility == "PRIVATE"

MimeMetaData == "application/vnd.vmware.vcloud.metadata+xml"
MimeMetaDataValue == "application/vnd.vmware.vcloud.metadata.value+xml"

MethodGet == "GET"
MethodPut == "PUT"
MethodPost == "POST"
MethodDelete == "DELETE"

\* The string literals the code appends to a resource reference.
SlashMetadataSlash == <<"/", "metadata", "/">>
SlashMetadata == <<"/", "metadata">>
SystemSlash == <<"SYSTEM", "/">>
SlashMetadataSlashSystemSlash == <<"/", "metadata", "/", "SYSTEM", "/">>

NoError == <<>>
NoTask == 0

\* Go's zero values of the response types.
EmptyTypedValue == [XsiType |-> "", Value |-> ""]
EmptyDomainTag == [Visibility |-> "", Domain |-> ""]
EmptyMetadataValue == [TypedValue |-> EmptyTypedValue, Domain |-> EmptyDomainTag]
EmptyMetadata == [MetadataEntry |-> {}]

----------------------------------------------------------------------------
(* Inputs                                                                  *)

Hrefs == {<<"/", "vApp", "/", "vapp-1">>, <<"/", "admin", "/", "vdc", "/", "vdc-7">>}
Keys == {"env", "secret"}
Values == {"prod", "x"}
XsiTypes == {"MetadataStringValue", "MetadataNumberValue"}
Visibilities == {MetadataReadWriteVisibility, MetadataReadOnlyVisibility,
                 MetadataHiddenVisibility, "BOGUS"}
Domains == {"GENERAL", "SYSTEM"}

\* Raw failures of a request, as the HTTP execution client reports them.
ErrVisibility == <<"API Error: 500:", "[ 5c1a ]", "visibility">>
ErrNotFound == <<"API Error: 404:", "not", "found">>
ErrForbidden == <<"API Error: 403:", "visibility", "denied">>
ErrMsgs == {ErrVisibility, ErrNotFound, ErrForbidden, <<"visibility">>}

MV(value, type, visibility, domain) ==
    [TypedValue |-> [XsiType |-> type, Value |-> value],
     Domain |-> [Visibility |-> visibility, Domain |-> domain]]

\* Maps a caller hands to Merge: key -> MetadataValue.
MergeEmpty == [k \in {} |-> EmptyMetadataValue]
MergeMaps ==
    { MergeEmpty,
      [k \in {"env"} |-> MV("prod", "MetadataStringValue", MetadataReadWriteVisibility, "GENERAL")],
      [k \in {"env"} |-> MV("x", "MetadataStringValue", MetadataReadOnlyVisibility, "GENERAL")],
      [k \in {"secret"} |-> MV("x", "MetadataNumberValue", MetadataReadWriteVisibility, "SYSTEM")],
      [k \in {"env", "secret"} |->
          IF k = "env" THEN MV("x", "MetadataStringValue", MetadataReadWriteVisibility, "GENERAL")
                       ELSE MV("prod", "MetadataStringValue", MetadataReadOnlyVisibility, "SYSTEM")] }

----------------------------------------------------------------------------
(* String helpers (Go: strings.HasSuffix, fmt.Errorf, substring)           *)

HasSuffix(s, suffix) ==
    /\ Len(s) >= Len(suffix)
    /\ SubSeq(s, Len(s) - Len(suffix) + 1, Len(s)) = suffix

Contains(s, tok) == \E i \in 1..Len(s) : s[i] = tok

\* All orders in which a Go map iteration can visit the keys of m.
Orders(m) ==
    { o \in [1..Cardinality(DOMAIN m) -> DOMAIN m] :
        \A i, j \in 1..Cardinality(DOMAIN m) : i # j => o[i] # o[j] }

----------------------------------------------------------------------------
(* Collaborators outside this file                                         *)

\* A key with a character that is reserved in a URL path, and the same key
\* percent-encoded.
ReservedKey == "a?b"
ReservedKeyEscaped == "a%3Fb"
ReservedKeyPath == "a"

\* urlParseRequestURI and URL.String: a parsed URL whose Path can be grown.
\* String writes the path escaped: a '?' in a segment becomes %3F.
urlParseRequestURI(requestUri) == [Path |-> requestUri]
EscapedPath(path) ==
    [i \in 1..Len(path) |-> IF path[i] = ReservedKey THEN ReservedKeyEscaped ELSE path[i]]
String(apiEndpoint) == EscapedPath(apiEndpoint.Path)

\* The path the execution client addresses for a URL string: it parses the
\* string, so an escaped segment is decoded, and a raw '?' ends the path
\* (what follows is the query).
RequestPath(url) ==
    [i \in 1..Len(url) |-> IF url[i] = ReservedKeyEscaped THEN ReservedKey
                           ELSE IF url[i] = ReservedKey THEN ReservedKeyPath
                           ELSE url[i]]

\* Client.ExecuteTaskRequest / Client.ExecuteRequest: a failure of the
\* request is formatted with the caller's errorMessage ("...: %s").
ExecuteError(errorMessage, raw) ==
    IF raw = NoError THEN NoError ELSE errorMessage \o raw

NoPayload == [Nil |-> TRUE]
NoRequest == [url |-> <<>>, method |-> "", contentType |-> "", errorMessage |-> <<>>,
              payload |-> NoPayload]

\* What the HTTP execution client hands back for one request: the Task
\* handle of an accepted mutation, the parsed body of a read, or the raw
\* failure.
Response(task, err, body) == [task |-> task, err |-> err, body |-> body]

\* Client.ExecuteRequest(url, method, type, errorMessage, payload, out):
\* out keeps its zero value when the request fails.
ExecuteRequest(req, resp, zero) ==
    [out |-> IF resp.err = NoError THEN resp.body ELSE zero,
     err |-> ExecuteError(req.errorMessage, resp.err)]

\* Client.ExecuteTaskRequest(url, method, type, errorMessage, payload):
\* the Task of the accepted request, or the empty Task and the error.
ExecuteTaskRequest(req, resp) ==
    [task |-> IF resp.err = NoError THEN resp.task ELSE NoTask,
     err |-> ExecuteError(req.errorMessage, resp.err)]

----------------------------------------------------------------------------
(* Generic private functions of metadata_v2.go.  Each function is split at *)
(* its single request: <f>Request is the request it sends, <f>Result what  *)
(* it returns for the response to that request.                            *)

\* Variant: the test of isSystem is inverted.
getMetadataByKeyRequest_Inverted(requestUri, key, isSystem) ==
    LET href0 == requestUri \o SlashMetadataSlash
        href == IF ~isSystem THEN href0 \o SystemSlash ELSE href0
    IN [url |-> href \o <<key>>,
        method |-> MethodGet,
        contentType |-> MimeMetaData,
        errorMessage |-> <<"error retrieving metadata by key", key, ":">>,
        payload |-> NoPayload]

getMetadataByKeyRequest(requestUri, key, isSystem) ==
    LET href0 == requestUri \o SlashMetadataSlash
        href == IF isSystem THEN href0 \o SystemSlash ELSE href0
    IN [url |-> href \o <<key>>,
        method |-> MethodGet,
        contentType |-> MimeMetaData,
        errorMessage |-> <<"error retrieving metadata by key", key, ":">>,
        payload |-> NoPayload]

getMetadataByKeyResult(req, resp) ==
    LET r == ExecuteRequest(req, resp, EmptyMetadataValue)
    IN [metadata |-> r.out, err |-> r.err]

getMetadataRequest(requestUri) ==
    [url |-> requestUri \o SlashMetadataSlash,
     method |-> MethodGet,
     contentType |-> MimeMetaData,
     errorMessage |-> <<"error retrieving metadata:">>,
     payload |-> NoPayload]

getMetadataResult(req, resp) ==
    LET r == ExecuteRequest(req, resp, EmptyMetadata)
    IN [metadata |-> r.out, err |-> r.err]

\* A request shaped like addMetadata's, with the visibility of the GENERAL
\* branch (generalVis) and of the SYSTEM branch (systemVis) given.  Only the
\* variants below use it.
addMetadataRequestWith(requestUri, key, value, typedValue, isSystem, generalVis, systemVis) ==
    [url |-> IF isSystem
             THEN requestUri \o SlashMetadataSlashSystemSlash \o <<key>>
             ELSE requestUri \o SlashMetadataSlash \o <<key>>,
     method |-> MethodPut,
     contentType |-> MimeMetaDataValue,
     errorMessage |-> <<"error adding metadata:">>,
     payload |-> [TypedValue |-> [XsiType |-> typedValue, Value |-> value],
                  Domain |-> IF isSystem
                             THEN [Visibility |-> systemVis, Domain |-> "SYSTEM"]
                             ELSE [Visibility |-> generalVis, Domain |-> "GENERAL"]]]

\* Variant: the GENERAL branch sets the domain but keeps the caller's visibility.
addMetadataRequest_NoCoercion(requestUri, key, value, typedValue, visibility, isSystem) ==
    addMetadataRequestWith(requestUri, key, value, typedValue, isSystem, visibility, visibility)

\* Variant: the GENERAL branch overwrites the visibility with the wrong constant.
addMetadataRequest_WrongConstant(requestUri, key, value, typedValue, visibility, isSystem) ==
    addMetadataRequestWith(requestUri, key, value, typedValue, isSystem,
                           IF visibility # MetadataReadWriteVisibility
                           THEN MetadataReadOnlyVisibility ELSE visibility,
                           visibility)

\* Variant: READWRITE is replaced client-side in the SYSTEM branch too.
addMetadataRequest_SystemCoerced(requestUri, key, value, typedValue, visibility, isSystem) ==
    addMetadataRequestWith(requestUri, key, value, typedValue, isSystem,
                           MetadataReadWriteVisibility,
                           IF visibility = MetadataReadWriteVisibility
                           THEN MetadataReadOnlyVisibility ELSE visibility)

\* Variant: the value and its type tag change places in the payload.
addMetadataRequest_SwappedValue(requestUri, key, value, typedValue, visibility, isSystem) ==
    addMetadataRequestWith(requestUri, key, typedValue, value, isSystem,
                           MetadataReadWriteVisibility, visibility)

\* Variant: the GENERAL branch changes the path only and leaves the
\* payload as it was built.
addMetadataRequest_DomainNotSet(requestUri, key, value, typedValue, visibility, isSystem) ==
    [addMetadataRequestWith(requestUri, key, value, typedValue, isSystem, visibility, visibility)
        EXCEPT !.payload.Domain.Domain = "SYSTEM"]

\* Variant: the SYSTEM branch appends the path of the GENERAL entry.
addMetadataRequest_GeneralPath(requestUri, key, value, typedValue, visibility, isSystem) ==
    [addMetadataRequestWith(requestUri, key, value, typedValue, isSystem,
                            MetadataReadWriteVisibility, visibility)
        EXCEPT !.url = requestUri \o SlashMetadataSlash \o <<key>>]

addMetadataRequest(requestUri, key, value, typedValue, visibility, isSystem) ==
    LET apiEndpoint == urlParseRequestURI(requestUri)
        newMetadata == [TypedValue |-> [XsiType |-> typedValue, Value |-> value],
                        Domain |-> [Visibility |-> visibility, Domain |-> "SYSTEM"]]
        endpoint == IF isSystem
                    THEN [apiEndpoint EXCEPT !.Path = @ \o SlashMetadataSlashSystemSlash \o <<key>>]
                    ELSE [apiEndpoint EXCEPT !.Path = @ \o SlashMetadataSlash \o <<key>>]
        general == [newMetadata EXCEPT !.Domain.Domain = "GENERAL"]
        body == IF isSystem
                THEN newMetadata
                ELSE IF visibility # MetadataReadWriteVisibility
                     THEN [general EXCEPT !.Domain.Visibility = MetadataReadWriteVisibility]
                     ELSE general
    IN [url |-> String(endpoint),
        method |-> MethodPut,
        contentType |-> MimeMetaDataValue,
        errorMessage |-> <<"error adding metadata:">>,
        payload |-> body]

\* Variant: the workaround tests strings.Contains instead of strings.HasSuffix.
addMetadataResult_Contains(key, visibility, req, resp) ==
    LET domain == req.payload.Domain.Visibility
        r == ExecuteTaskRequest(req, resp)
    IN IF r.err # NoError /\ Contains(r.err, "visibility")
       THEN [task |-> r.task,
             err |-> <<"error adding metadata with key", key, ": visibility cannot be",
                       visibility, "when domain is", domain, ":">> \o r.err]
       ELSE r

\* Variant: no workaround, the error of the request is returned as it is.
addMetadataResult_NoRewrite(key, visibility, req, resp) == ExecuteTaskRequest(req, resp)

\* The code names `domain` the Visibility of the payload (line 787).
addMetadataResult(key, visibility, req, resp) ==
    LET domain == req.payload.Domain.Visibility
        r == ExecuteTaskRequest(req, resp)
    IN IF r.err # NoError /\ HasSuffix(r.err, <<"visibility">>)
       THEN [task |-> r.task,
             err |-> <<"error adding metadata with key", key, ": visibility cannot be",
                       visibility, "when domain is", domain, ":">> \o r.err]
       ELSE r

\* Variant: Merge coerces a GENERAL entry's visibility as Add does.
mergeAllMetadataRequest_Coerced(requestUri, metadata, order) ==
    LET metadataToMerge == [i \in 1..Len(order) |->
                               [Key |-> order[i],
                                TypedValue |-> metadata[order[i]].TypedValue,
                                Domain |-> IF metadata[order[i]].Domain.Domain = "GENERAL"
                                           THEN [Visibility |-> MetadataReadWriteVisibility,
                                                 Domain |-> "GENERAL"]
                                           ELSE metadata[order[i]].Domain]]
    IN [url |-> String([urlParseRequestURI(requestUri) EXCEPT !.Path = @ \o SlashMetadata]),
        method |-> MethodPost,
        contentType |-> MimeMetaData,
        errorMessage |-> <<"error adding metadata:">>,
        payload |-> [MetadataEntry |-> metadataToMerge]]

\* Variant: the range stops one item early.
mergeAllMetadataRequest_DropLast(requestUri, metadata, order) ==
    LET metadataToMerge == [i \in 1..(Len(order) - 1) |->
                               [Key |-> order[i],
                                TypedValue |-> metadata[order[i]].TypedValue,
                                Domain |-> metadata[order[i]].Domain]]
    IN [url |-> String([urlParseRequestURI(requestUri) EXCEPT !.Path = @ \o SlashMetadata]),
        method |-> MethodPost,
        contentType |-> MimeMetaData,
        errorMessage |-> <<"error adding metadata:">>,
        payload |-> [MetadataEntry |-> metadataToMerge]]

\* Variant: the batch is posted to the URL of its first entry.
mergeAllMetadataRequest_KeySegment(requestUri, metadata, order) ==
    LET metadataToMerge == [i \in 1..Len(order) |->
                               [Key |-> order[i],
                                TypedValue |-> metadata[order[i]].TypedValue,
                                Domain |-> metadata[order[i]].Domain]]
        segment == IF Len(order) = 0 THEN SlashMetadata
                   ELSE SlashMetadataSlash \o <<order[1]>>
    IN [url |-> String([urlParseRequestURI(requestUri) EXCEPT !.Path = @ \o segment]),
        method |-> MethodPost,
        contentType |-> MimeMetaData,
        errorMessage |-> <<"error adding metadata:">>,
        payload |-> [MetadataEntry |-> metadataToMerge]]

\* order: the order in which the range over the map visits its keys.
mergeAllMetadataRequest(requestUri, metadata, order) ==
    LET metadataToMerge == [i \in 1..Len(order) |->
                               [Key |-> order[i],
                                TypedValue |-> metadata[order[i]].TypedValue,
                                Domain |-> metadata[order[i]].Domain]]
        newMetadata == [MetadataEntry |-> metadataToMerge]
        apiEndpoint == urlParseRequestURI(requestUri)
        endpoint == [apiEndpoint EXCEPT !.Path = @ \o SlashMetadata]
    IN [url |-> String(endpoint),
        method |-> MethodPost,
        contentType |-> MimeMetaData,
        errorMessage |-> <<"error adding metadata:">>,
        payload |-> newMetadata]

\* Variant: an empty batch is refused by the client.
mergeAllMetadataResult_RejectEmpty(req, resp) ==
    IF Len(req.payload.MetadataEntry) = 0
    THEN [task |-> NoTask, err |-> <<"error adding metadata:", "no", "entries">>]
    ELSE ExecuteTaskRequest(req, resp)

mergeAllMetadataResult(req, resp) == ExecuteTaskRequest(req, resp)

\* Variant: the SYSTEM branch is missing, every delete goes to /metadata/<key>.
deleteMetadataRequest_IgnoreDomain(requestUri, key, isSystem) ==
    [url |-> requestUri \o SlashMetadataSlash \o <<key>>,
     method |-> MethodDelete,
     contentType |-> "",
     errorMessage |-> <<"error deleting metadata:">>,
     payload |-> NoPayload]

deleteMetadataRequest(requestUri, key, isSystem) ==
    LET apiEndpoint == urlParseRequestURI(requestUri)
        endpoint == IF isSystem
                    THEN [apiEndpoint EXCEPT !.Path = @ \o SlashMetadataSlashSystemSlash \o <<key>>]
                    ELSE [apiEndpoint EXCEPT !.Path = @ \o SlashMetadataSlash \o <<key>>]
    IN [url |-> String(endpoint),
        method |-> MethodDelete,
        contentType |-> "",
        errorMessage |-> <<"error deleting metadata:">>,
        payload |-> NoPayload]

\* Variant: the error of the request is dropped.
deleteMetadataResult_ErrorDropped(req, resp) ==
    [task |-> ExecuteTaskRequest(req, resp).task, err |-> NoError]

deleteMetadataResult(req, resp) == ExecuteTaskRequest(req, resp)

----------------------------------------------------------------------------
(* The VCD server and its Tasks (external collaborators; modelled from the *)
(* documented contract of the API).  Under Spec every request reaches the  *)
(* server and fails only when the server refuses it; under SpecLayer a     *)
(* request can fail in any way.                                            *)

NoEntry == [Absent |-> TRUE]

\* The resource references the server knows.
Existing == {<<"/", "vApp", "/", "vapp-1">>}

Slots == Existing \X Domains \X Keys

IsPrefix(p, s) == Len(p) <= Len(s) /\ SubSeq(s, 1, Len(p)) = p

\* Which resource and which entry a URL addresses.
Route(url) ==
    IF \E h \in Existing : IsPrefix(h, url)
    THEN LET h == CHOOSE h \in Existing : IsPrefix(h, url)
             rest == SubSeq(url, Len(h) + 1, Len(url))
         IN IF rest = SlashMetadata \/ rest = SlashMetadataSlash
            THEN [kind |-> "collection", href |-> h, domain |-> "", key |-> ""]
            ELSE IF Len(rest) = 4 /\ SubSeq(rest, 1, 3) = SlashMetadataSlash
                    /\ rest[4] \in Keys
            THEN [kind |-> "entry", href |-> h, domain |-> "GENERAL", key |-> rest[4]]
            ELSE IF Len(rest) = 6 /\ SubSeq(rest, 1, 5) = SlashMetadataSlashSystemSlash
                    /\ rest[6] \in Keys
            THEN [kind |-> "entry", href |-> h, domain |-> "SYSTEM", key |-> rest[6]]
            ELSE [kind |-> "unknown", href |-> h, domain |-> "", key |-> ""]
    ELSE [kind |-> "unknown", href |-> <<>>, domain |-> "", key |-> ""]

SlotOf(route) == <<route.href, route.domain, route.key>>

\* The server's validation of a domain tag: GENERAL entries are READWRITE,
\* SYSTEM entries are READONLY or PRIVATE (hidden).
ValidDomainTag(tag) ==
    \/ tag.Domain = "GENERAL" /\ tag.Visibility = MetadataReadWriteVisibility
    \/ tag.Domain = "SYSTEM"
       /\ tag.Visibility \in {MetadataReadOnlyVisibility, MetadataHiddenVisibility}

\* The collection a GET of <href>/metadata/ returns.
Collection(st, href) ==
    [MetadataEntry |->
        { [Key |-> s[3], TypedValue |-> st[s].TypedValue, Domain |-> st[s].Domain] :
            s \in { t \in Slots : t[1] = href /\ st[t] # NoEntry } }]

\* The responses the server can give to a request in state st; newTask is
\* the handle of the Task an accepted mutation creates.
Serve(req, st, newTask) ==
    LET route == Route(req.url) IN
    IF route.kind = "unknown"
    THEN {Response(NoTask, ErrNotFound, NoPayload)}
    ELSE IF req.method = MethodGet /\ route.kind = "entry"
    THEN IF st[SlotOf(route)] = NoEntry
         THEN {Response(NoTask, ErrNotFound, NoPayload)}
         ELSE {Response(NoTask, NoError, st[SlotOf(route)])}
    ELSE IF req.method = MethodGet /\ route.kind = "collection"
    THEN {Response(NoTask, NoError, Collection(st, route.href))}
    ELSE IF req.method = MethodPut /\ route.kind = "entry"
    THEN IF ValidDomainTag(req.payload.Domain)
         THEN {Response(newTask, NoError, NoPayload)}
         ELSE {Response(NoTask, ErrVisibility, NoPayload)}
    ELSE IF req.method = MethodPost /\ route.kind = "collection"
    THEN IF \A i \in 1..Len(req.payload.MetadataEntry) :
                ValidDomainTag(req.payload.MetadataEntry[i].Domain)
         THEN {Response(newTask, NoError, NoPayload)}
         ELSE {Response(NoTask, ErrVisibility, NoPayload)}
    ELSE IF req.method = MethodDelete /\ route.kind = "entry"
    THEN IF st[SlotOf(route)] = NoEntry
         THEN {Response(NoTask, ErrNotFound, NoPayload)}
         ELSE {Response(newTask, NoError, NoPayload)}
    ELSE {Response(NoTask, ErrNotFound, NoPayload)}

\* The slots an accepted mutation writes when its Task succeeds.
Written(req) ==
    LET route == Route(req.url) IN
    IF req.method = MethodPost
    THEN { <<route.href, req.payload.MetadataEntry[i].Domain.Domain,
             req.payload.MetadataEntry[i].Key>> : i \in 1..Len(req.payload.MetadataEntry) }
    ELSE {SlotOf(route)}

\* The metadata set after the mutation of req is applied to st.
Apply(req, st) ==
    LET route == Route(req.url) IN
    IF req.method = MethodPut
    THEN [st EXCEPT ![SlotOf(route)] = req.payload]
    ELSE IF req.method = MethodDelete
    THEN [st EXCEPT ![SlotOf(route)] = NoEntry]
    ELSE [s \in Slots |->
            IF \E i \in 1..Len(req.payload.MetadataEntry) :
                  s = <<route.href, req.payload.MetadataEntry[i].Domain.Domain,
                        req.payload.MetadataEntry[i].Key>>
            THEN LET i == CHOOSE i \in 1..Len(req.payload.MetadataEntry) :
                              s = <<route.href, req.payload.MetadataEntry[i].Domain.Domain,
                                    req.payload.MetadataEntry[i].Key>>
                 IN [TypedValue |-> req.payload.MetadataEntry[i].TypedValue,
                     Domain |-> req.payload.MetadataEntry[i].Domain]
            ELSE st[s]]

\* Task states; the last two are terminal.
TaskCreated == "Created"
TaskRunning == "Running"
TaskSucceeded == "Succeeded"
TaskFailed == "Failed"

isTaskRunning(status) == status \in {TaskCreated, TaskRunning}

\* Task.WaitTaskCompletion, once the poll sees a terminal state.
WaitTaskCompletion(status) ==
    IF status = TaskFailed THEN <<"task did not complete succesfully:", "error">>
    ELSE NoError

----------------------------------------------------------------------------
(* The "AndWait" wrappers: what they do with the result of the request.    *)

addMetadataAndWaitResult(r) ==
    IF r.err # NoError
    THEN [pc |-> "returned", task |-> NoTask, err |-> r.err]
    ELSE [pc |-> "waiting", task |-> r.task, err |-> NoError]

\* Variant: the wrapper puts its own words before the error of the request.
mergeMetadataAndWaitResult_Reworded(r) ==
    IF r.err # NoError
    THEN [pc |-> "returned", task |-> NoTask,
          err |-> <<"error merging metadata:">> \o r.err]
    ELSE [pc |-> "waiting", task |-> r.task, err |-> NoError]

mergeMetadataAndWaitResult(r) ==
    IF r.err # NoError
    THEN [pc |-> "returned", task |-> NoTask, err |-> r.err]
    ELSE [pc |-> "waiting", task |-> r.task, err |-> NoError]

\* Variant: the wrapper returns the error of the request without waiting.
deleteMetadataAndWaitResult_NoWait(r) ==
    [pc |-> "returned", task |-> r.task, err |-> r.err]

deleteMetadataAndWaitResult(r) ==
    IF r.err # NoError
    THEN [pc |-> "returned", task |-> NoTask, err |-> r.err]
    ELSE [pc |-> "waiting", task |-> r.task, err |-> NoError]

----------------------------------------------------------------------------
(* State                                                                   *)

Args(requestUri, key, value, typedValue, visibility, isSystem, metadata) ==
    [requestUri |-> requestUri, key |-> key, value |-> value, typedValue |-> typedValue,
     visibility |-> visibility, isSystem |-> isSystem, metadata |-> metadata]

NoArgs == Args(<<>>, "", "", "", "", FALSE, MergeEmpty)

NoOver == [fn |-> "none", args |-> NoArgs]
NoMark == [fn |-> "none", args |-> NoArgs, over |-> NoOver]

\* raw: the failure of the request as the execution client saw it;
\* seen: for a read or a Delete of one entry, the mark of the slot at the
\*       time of the call;
\* sent: the requests the call has handed to the execution client.
Call(fn, pc, args, req, raw, task, err, out, seen) ==
    [fn |-> fn, pc |-> pc, args |-> args, req |-> req, raw |-> raw, task |-> task,
     err |-> err, out |-> out, seen |-> seen,
     sent |-> IF fn = "none" THEN <<>> ELSE <<req>>]

IdleCall == Call("none", "idle", NoArgs, NoRequest, NoError, NoTask, NoError, NoPayload, NoMark)

\* Two goroutines of the program that call the layer independently.
Callers == {1, 2}

\* The resource object whose methods are called; none when the generic
\* functions are called directly.
NoReceiver == [type |-> "none", HREF |-> <<>>, ID |-> <<>>]

DomainOf(isSystem) == IF isSystem THEN "SYSTEM" ELSE "GENERAL"

\* The metadata set the resource holds before the first call: one GENERAL
\* and one SYSTEM entry, the other two slots empty.
InitialStores ==
    { [s \in Slots |->
          IF s[2] = "GENERAL" /\ s[3] = "env"
          THEN MV("x", "MetadataStringValue", MetadataReadWriteVisibility, "GENERAL")
          ELSE IF s[2] = "SYSTEM" /\ s[3] = "secret"
          THEN MV("prod", "MetadataStringValue", MetadataReadOnlyVisibility, "SYSTEM")
          ELSE NoEntry] }

Init ==
    /\ store \in InitialStores
    /\ tasks = <<>>
    /\ mark = [s \in Slots |-> NoMark]
    /\ call = IdleCall
    /\ calls = [c \in Callers |-> IdleCall]
    /\ receiver = NoReceiver

\* A call starts when the previous one has returned.
CanCall == call.pc # "waiting"
CanMutate == CanCall /\ Len(tasks) < MaxTasks

NewTask == Len(tasks) + 1

Accept(req, resp) ==
    IF resp.task # NoTask
    THEN Append(tasks, [req |-> req, status |-> TaskCreated])
    ELSE tasks

SeenAt(requestUri, key, isSystem) ==
    IF <<requestUri, DomainOf(isSystem), key>> \in Slots
    THEN mark[<<requestUri, DomainOf(isSystem), key>>]
    ELSE NoMark

\* The slots the caller of a mutation means to change.
Meant(fn, args) ==
    IF fn = "mergeMetadataAndWait"
    THEN { <<args.requestUri, args.metadata[k].Domain.Domain, k>> : k \in DOMAIN args.metadata }
    ELSE { <<args.requestUri, DomainOf(args.isSystem), args.key>> }

----------------------------------------------------------------------------
(* Calls of the layer against the server.  The inputs of these calls are   *)
(* the Sys* sets.                                                          *)

SysHrefs == Existing
\* The values Add is called with: either value for the GENERAL entry "env",
\* so that an Add overwrites the value of an earlier one; one value elsewhere.
SysValuesOf(key, isSystem) == IF key = "env" /\ ~isSystem THEN Values ELSE {"prod"}
SysXsiTypes == {"MetadataStringValue"}
SysMergeMaps ==
    { m \in MergeMaps \ {MergeEmpty} :
        \A k \in DOMAIN m : m[k].TypedValue.XsiType \in SysXsiTypes }
SysVisibilities == {MetadataReadWriteVisibility, MetadataReadOnlyVisibility}

\* Variant: a failed GET is sent a second time.
getMetadataByKey_Retried ==
    /\ CanCall
    /\ \E requestUri \in SysHrefs, key \in Keys, isSystem \in BOOLEAN :
         LET req == getMetadataByKeyRequest(requestUri, key, isSystem) IN
         \E first \in Serve(req, store, NoTask), resp \in Serve(req, store, NoTask) :
            LET r == getMetadataByKeyResult(req, resp) IN
            call' = [Call("getMetadataByKey", "returned",
                          Args(requestUri, key, "", "", "", isSystem, MergeEmpty),
                          req, resp.err, NoTask, r.err, r.metadata,
                          SeenAt(requestUri, key, isSystem))
                       EXCEPT !.sent = IF first.err # NoError THEN <<req, req>> ELSE <<req>>]
    /\ UNCHANGED <<store, tasks, mark, calls, receiver>>

getMetadataByKey ==
    /\ CanCall
    /\ \E requestUri \in SysHrefs, key \in Keys, isSystem \in BOOLEAN :
         LET req == getMetadataByKeyRequest(requestUri, key, isSystem) IN
         \E resp \in Serve(req, store, NoTask) :
            LET r == getMetadataByKeyResult(req, resp) IN
            call' = Call("getMetadataByKey", "returned",
                         Args(requestUri, key, "", "", "", isSystem, MergeEmpty),
                         req, resp.err, NoTask, r.err, r.metadata,
                         SeenAt(requestUri, key, isSystem))
    /\ UNCHANGED <<store, tasks, mark, calls, receiver>>

getMetadata ==
    /\ CanCall
    /\ \E requestUri \in SysHrefs :
         LET req == getMetadataRequest(requestUri) IN
         \E resp \in Serve(req, store, NoTask) :
            LET r == getMetadataResult(req, resp) IN
            call' = Call("getMetadata", "returned",
                         Args(requestUri, "", "", "", "", FALSE, MergeEmpty),
                         req, resp.err, NoTask, r.err, r.metadata, NoMark)
    /\ UNCHANGED <<store, tasks, mark, calls, receiver>>

addMetadata ==
    /\ CanMutate
    /\ \E requestUri \in SysHrefs, key \in Keys, typedValue \in SysXsiTypes,
          visibility \in SysVisibilities, isSystem \in BOOLEAN :
         \E value \in SysValuesOf(key, isSystem) :
         LET req == addMetadataRequest(requestUri, key, value, typedValue, visibility, isSystem) IN
         \E resp \in Serve(req, store, NewTask) :
            LET r == addMetadataResult(key, visibility, req, resp) IN
            /\ call' = Call("addMetadata", "returned",
                            Args(requestUri, key, value, typedValue, visibility, isSystem, MergeEmpty),
                            req, resp.err, r.task, r.err, NoPayload, NoMark)
            /\ tasks' = Accept(req, resp)
    /\ UNCHANGED <<store, mark, calls, receiver>>

addMetadataAndWait ==
    /\ CanMutate
    /\ \E requestUri \in SysHrefs, key \in Keys, typedValue \in SysXsiTypes,
          visibility \in SysVisibilities, isSystem \in BOOLEAN :
         \E value \in SysValuesOf(key, isSystem) :
         LET req == addMetadataRequest(requestUri, key, value, typedValue, visibility, isSystem) IN
         \E resp \in Serve(req, store, NewTask) :
            LET w == addMetadataAndWaitResult(addMetadataResult(key, visibility, req, resp)) IN
            /\ call' = Call("addMetadataAndWait", w.pc,
                            Args(requestUri, key, value, typedValue, visibility, isSystem, MergeEmpty),
                            req, resp.err, w.task, w.err, NoPayload, NoMark)
            /\ tasks' = Accept(req, resp)
    /\ UNCHANGED <<store, mark, calls, receiver>>

mergeAllMetadata ==
    /\ CanMutate
    /\ \E requestUri \in SysHrefs, metadata \in SysMergeMaps :
         \E order \in Orders(metadata) :
         LET req == mergeAllMetadataRequest(requestUri, metadata, order) IN
         \E resp \in Serve(req, store, NewTask) :
            LET r == mergeAllMetadataResult(req, resp) IN
            /\ call' = Call("mergeAllMetadata", "returned",
                            Args(requestUri, "", "", "", "", FALSE, metadata),
                            req, resp.err, r.task, r.err, NoPayload, NoMark)
            /\ tasks' = Accept(req, resp)
    /\ UNCHANGED <<store, mark, calls, receiver>>

mergeMetadataAndWait ==
    /\ CanMutate
    /\ \E requestUri \in SysHrefs, metadata \in SysMergeMaps :
         \E order \in Orders(metadata) :
         LET req == mergeAllMetadataRequest(requestUri, metadata, order) IN
         \E resp \in Serve(req, store, NewTask) :
            LET w == mergeMetadataAndWaitResult(mergeAllMetadataResult(req, resp)) IN
            /\ call' = Call("mergeMetadataAndWait", w.pc,
                            Args(requestUri, "", "", "", "", FALSE, metadata),
                            req, resp.err, w.task, w.err, NoPayload, NoMark)
            /\ tasks' = Accept(req, resp)
    /\ UNCHANGED <<store, mark, calls, receiver>>

deleteMetadata ==
    /\ CanMutate
    /\ \E requestUri \in SysHrefs, key \in Keys, isSystem \in BOOLEAN :
         LET req == deleteMetadataRequest(requestUri, key, isSystem) IN
         \E resp \in Serve(req, store, NewTask) :
            LET r == deleteMetadataResult(req, resp) IN
            /\ call' = Call("deleteMetadata", "returned",
                            Args(requestUri, key, "", "", "", isSystem, MergeEmpty),
                            req, resp.err, r.task, r.err, NoPayload,
                            SeenAt(requestUri, key, isSystem))
            /\ tasks' = Accept(req, resp)
    /\ UNCHANGED <<store, mark, calls, receiver>>

deleteMetadataAndWait ==
    /\ CanMutate
    /\ \E requestUri \in SysHrefs, key \in Keys, isSystem \in BOOLEAN :
         LET req == deleteMetadataRequest(requestUri, key, isSystem) IN
         \E resp \in Serve(req, store, NewTask) :
            LET w == deleteMetadataAndWaitResult(deleteMetadataResult(req, resp)) IN
            /\ call' = Call("deleteMetadataAndWait", w.pc,
                            Args(requestUri, key, "", "", "", isSystem, MergeEmpty),
                            req, resp.err, w.task, w.err, NoPayload,
                            SeenAt(requestUri, key, isSystem))
            /\ tasks' = Accept(req, resp)
    /\ UNCHANGED <<store, mark, calls, receiver>>

\* Variant: the wait loop leaves only when the Task has succeeded.
WaitPoll_UntilSuccess ==
    /\ call.pc = "waiting"
    /\ LET status == tasks[call.task].status IN
       IF status # TaskSucceeded
       THEN UNCHANGED call
       ELSE call' = [call EXCEPT !.pc = "returned", !.err = WaitTaskCompletion(status)]
    /\ UNCHANGED <<store, tasks, mark, calls, receiver>>

\* One poll of the wait loop: it sleeps and polls again while the Task is
\* not terminal, and returns once it is.
WaitPoll ==
    /\ call.pc = "waiting"
    /\ LET status == tasks[call.task].status IN
       IF isTaskRunning(status)
       THEN UNCHANGED call
       ELSE call' = [call EXCEPT !.pc = "returned", !.err = WaitTaskCompletion(status)]
    /\ UNCHANGED <<store, tasks, mark, calls, receiver>>

----------------------------------------------------------------------------
(* Steps of the server's Tasks                                             *)

TaskStart ==
    \E i \in 1..Len(tasks) :
       /\ tasks[i].status = TaskCreated
       /\ tasks' = [tasks EXCEPT ![i].status = TaskRunning]
       /\ UNCHANGED <<store, mark, call, calls, receiver>>

\* The Task applies its mutation and succeeds.  A DELETE whose entry is
\* gone by the time the Task runs cannot succeed.  The request of a Task
\* is dropped once the Task is terminal.
TaskSucceed ==
    \E i \in 1..Len(tasks) :
       LET awaited == call.pc = "waiting" /\ call.task = i IN
       /\ tasks[i].status = TaskRunning
       /\ tasks[i].req.method = MethodDelete => store[SlotOf(Route(tasks[i].req.url))] # NoEntry
       /\ tasks' = [tasks EXCEPT ![i] = [req |-> NoRequest, status |-> TaskSucceeded]]
       /\ store' = Apply(tasks[i].req, store)
       /\ mark' = [s \in Slots |->
                     IF awaited /\ s \in Meant(call.fn, call.args)
                     THEN [fn |-> call.fn, args |-> call.args,
                           over |-> [fn |-> mark[s].fn, args |-> mark[s].args]]
                     ELSE IF s \in Written(tasks[i].req) THEN NoMark
                     ELSE mark[s]]
       /\ UNCHANGED <<call, calls, receiver>>

\* Variant: a Task that has succeeded can still be reported failed.
TaskFail_AfterSuccess ==
    \E i \in 1..Len(tasks) :
       /\ tasks[i].status \in {TaskRunning, TaskSucceeded}
       /\ tasks' = [tasks EXCEPT ![i] = [req |-> NoRequest, status |-> TaskFailed]]
       /\ UNCHANGED <<store, mark, call, calls, receiver>>

TaskFail ==
    \E i \in 1..Len(tasks) :
       /\ tasks[i].status = TaskRunning
       /\ tasks' = [tasks EXCEPT ![i] = [req |-> NoRequest, status |-> TaskFailed]]
       /\ UNCHANGED <<store, mark, call, calls, receiver>>

Next ==
    \/ getMetadataByKey
    \/ getMetadata
    \/ addMetadata
    \/ addMetadataAndWait
    \/ mergeAllMetadata
    \/ mergeMetadataAndWait
    \/ deleteMetadata
    \/ deleteMetadataAndWait
    \/ WaitPoll
    \/ TaskStart
    \/ TaskSucceed
    \/ TaskFail

Spec == Init /\ [][Next]_vars

\* The synchronous mutations and the Tasks they wait for, when the thread
\* of a waiting call keeps running, so that its wait loop polls again and
\* again, and when the server is fair to its Tasks: a Task that is Created
\* is started and a Task that is Running ends.
WaitNext ==
    \/ addMetadata
    \/ addMetadataAndWait
    \/ mergeMetadataAndWait
    \/ deleteMetadataAndWait
    \/ WaitPoll
    \/ TaskStart
    \/ TaskSucceed
    \/ TaskFail

SpecWait ==
    /\ Init
    /\ [][WaitNext]_vars
    /\ WF_vars(WaitPoll)
    /\ WF_vars(TaskStart)
    /\ WF_vars(TaskSucceed \/ TaskFail)

----------------------------------------------------------------------------
(* The functions of the layer on their own: every input, and every answer  *)
(* the execution client can give (a Task handle, a body, or any failure).  *)

AnyTaskResponses ==
    {Response(1, NoError, NoPayload)} \cup {Response(NoTask, e, NoPayload) : e \in ErrMsgs}

AnyValueResponses ==
    {Response(NoTask, NoError, MV(v, "MetadataStringValue", MetadataReadWriteVisibility, "GENERAL")) :
        v \in Values}
    \cup {Response(NoTask, e, NoPayload) : e \in ErrMsgs}

AnyMetadataResponses ==
    {Response(NoTask, NoError, EmptyMetadata)} \cup {Response(NoTask, e, NoPayload) : e \in ErrMsgs}

getMetadataByKeyAny ==
    /\ \E requestUri \in Hrefs, key \in Keys, isSystem \in BOOLEAN, resp \in AnyValueResponses :
         LET req == getMetadataByKeyRequest(requestUri, key, isSystem)
             r == getMetadataByKeyResult(req, resp)
         IN call' = Call("getMetadataByKey", "returned",
                         Args(requestUri, key, "", "", "", isSystem, MergeEmpty),
                         req, resp.err, NoTask, r.err, r.metadata, NoMark)
    /\ UNCHANGED <<store, tasks, mark, calls, receiver>>

getMetadataAny ==
    /\ \E requestUri \in Hrefs, resp \in AnyMetadataResponses :
         LET req == getMetadataRequest(requestUri)
             r == getMetadataResult(req, resp)
         IN call' = Call("getMetadata", "returned",
                         Args(requestUri, "", "", "", "", FALSE, MergeEmpty),
                         req, resp.err, NoTask, r.err, r.metadata, NoMark)
    /\ UNCHANGED <<store, tasks, mark, calls, receiver>>

addMetadataAny ==
    /\ \E requestUri \in Hrefs, key \in Keys, value \in Values, typedValue \in XsiTypes,
          visibility \in Visibilities, isSystem \in BOOLEAN, resp \in AnyTaskResponses :
         LET req == addMetadataRequest(requestUri, key, value, typedValue, visibility, isSystem)
             r == addMetadataResult(key, visibility, req, resp)
         IN call' = Call("addMetadata", "returned",
                         Args(requestUri, key, value, typedValue, visibility, isSystem, MergeEmpty),
                         req, resp.err, r.task, r.err, NoPayload, NoMark)
    /\ UNCHANGED <<store, tasks, mark, calls, receiver>>

mergeAllMetadataAny ==
    /\ \E requestUri \in Hrefs, metadata \in MergeMaps, resp \in AnyTaskResponses :
         \E order \in Orders(metadata) :
         LET req == mergeAllMetadataRequest(requestUri, metadata, order)
             r == mergeAllMetadataResult(req, resp)
         IN call' = Call("mergeAllMetadata", "returned",
                         Args(requestUri, "", "", "", "", FALSE, metadata),
                         req, resp.err, r.task, r.err, NoPayload, NoMark)
    /\ UNCHANGED <<store, tasks, mark, calls, receiver>>

deleteMetadataAny ==
    /\ \E requestUri \in Hrefs, key \in Keys, isSystem \in BOOLEAN, resp \in AnyTaskResponses :
         LET req == deleteMetadataRequest(requestUri, key, isSystem)
             r == deleteMetadataResult(req, resp)
         IN call' = Call("deleteMetadata", "returned",
                         Args(requestUri, key, "", "", "", isSystem, MergeEmpty),
                         req, resp.err, r.task, r.err, NoPayload, NoMark)
    /\ UNCHANGED <<store, tasks, mark, calls, receiver>>

LayerNext ==
    \/ getMetadataByKeyAny
    \/ getMetadataAny
    \/ addMetadataAny
    \/ mergeAllMetadataAny
    \/ deleteMetadataAny

SpecLayer == Init /\ [][LayerNext]_vars

----------------------------------------------------------------------------
(* Two callers that use the layer at the same time.  A call is suspended   *)
(* at its one request, so a call is two steps: the request is sent (pc     *)
(* "sent"), and later the answer arrives and the function returns.  The    *)
(* functions have only their parameters and locals to work with: the       *)
(* package has no variable of its own and the client is only passed on.    *)

CallersValues == {"prod"}
CallersKeys == Keys \cup {ReservedKey}

\* The answers a request of function fn can get here: accepted, or refused.
CallersResponses(fn) ==
    IF fn = "getMetadataByKey"
    THEN { r \in AnyValueResponses : r.err = ErrForbidden \/ r.body = EmptyMetadataValue
                                    \/ (r.err = NoError /\ r.body.TypedValue.Value = "x") }
    ELSE IF fn = "getMetadata"
    THEN { r \in AnyMetadataResponses : r.err \in {NoError, ErrForbidden} }
    ELSE { r \in AnyTaskResponses : r.err \in {NoError, ErrForbidden} }

\* Caller c enters fn with args; the function builds req and hands it to
\* the execution client.
Sent(c, fn, args, req) ==
    [calls EXCEPT ![c] = Call(fn, "sent", args, req, NoError, NoTask, NoError,
                              NoPayload, NoMark)]

\* A caller starts a call when it is not inside one.
CanSend(c) == calls[c].pc # "sent"

getMetadataByKeySent(c) ==
    /\ CanSend(c)
    /\ \E requestUri \in Hrefs, key \in CallersKeys, isSystem \in BOOLEAN :
         calls' = Sent(c, "getMetadataByKey",
                       Args(requestUri, key, "", "", "", isSystem, MergeEmpty),
                       getMetadataByKeyRequest(requestUri, key, isSystem))
    /\ UNCHANGED <<store, tasks, mark, call, receiver>>

getMetadataSent(c) ==
    /\ CanSend(c)
    /\ \E requestUri \in Hrefs :
         calls' = Sent(c, "getMetadata", Args(requestUri, "", "", "", "", FALSE, MergeEmpty),
                       getMetadataRequest(requestUri))
    /\ UNCHANGED <<store, tasks, mark, call, receiver>>

addMetadataSent(c) ==
    /\ CanSend(c)
    /\ \E requestUri \in Hrefs, key \in CallersKeys, value \in CallersValues,
          typedValue \in SysXsiTypes, visibility \in SysVisibilities, isSystem \in BOOLEAN :
         calls' = Sent(c, "addMetadata",
                       Args(requestUri, key, value, typedValue, visibility, isSystem, MergeEmpty),
                       addMetadataRequest(requestUri, key, value, typedValue, visibility,
                                          isSystem))
    /\ UNCHANGED <<store, tasks, mark, call, receiver>>

mergeAllMetadataSent(c) ==
    /\ CanSend(c)
    /\ \E requestUri \in Hrefs, metadata \in SysMergeMaps :
         \E order \in Orders(metadata) :
            calls' = Sent(c, "mergeAllMetadata",
                          Args(requestUri, "", "", "", "", FALSE, metadata),
                          mergeAllMetadataRequest(requestUri, metadata, order))
    /\ UNCHANGED <<store, tasks, mark, call, receiver>>

\* Variant: the parsed endpoint is one object all calls share, so a call
\* that starts while another Delete of the same resource is suspended grows
\* the path that call has already grown.
deleteMetadataSent_SharedEndpoint(c) ==
    /\ CanSend(c)
    /\ \E requestUri \in Hrefs, key \in CallersKeys, isSystem \in BOOLEAN :
         LET busy == { d \in Callers \ {c} : /\ calls[d].pc = "sent"
                                             /\ calls[d].fn = "deleteMetadata"
                                             /\ calls[d].args.requestUri = requestUri }
             shared == IF busy = {} THEN requestUri
                       ELSE calls[CHOOSE d \in busy : TRUE].req.url
         IN calls' = Sent(c, "deleteMetadata",
                          Args(requestUri, key, "", "", "", isSystem, MergeEmpty),
                          deleteMetadataRequest(shared, key, isSystem))
    /\ UNCHANGED <<store, tasks, mark, call, receiver>>

deleteMetadataSent(c) ==
    /\ CanSend(c)
    /\ \E requestUri \in Hrefs, key \in CallersKeys, isSystem \in BOOLEAN :
         calls' = Sent(c, "deleteMetadata",
                       Args(requestUri, key, "", "", "", isSystem, MergeEmpty),
                       deleteMetadataRequest(requestUri, key, isSystem))
    /\ UNCHANGED <<store, tasks, mark, call, receiver>>

\* The answer to the request of caller c arrives and the function returns.
Returns(c) ==
    /\ calls[c].pc = "sent"
    /\ \E resp \in CallersResponses(calls[c].fn) :
         LET fn == calls[c].fn
             args == calls[c].args
             req == calls[c].req
             read == IF fn = "getMetadataByKey" THEN getMetadataByKeyResult(req, resp)
                     ELSE getMetadataResult(req, resp)
             written == IF fn = "addMetadata"
                        THEN addMetadataResult(args.key, args.visibility, req, resp)
                        ELSE IF fn = "mergeAllMetadata" THEN mergeAllMetadataResult(req, resp)
                        ELSE deleteMetadataResult(req, resp)
         IN calls' = [calls EXCEPT ![c] =
                        IF fn \in {"getMetadataByKey", "getMetadata"}
                        THEN Call(fn, "returned", args, req, resp.err, NoTask, read.err,
                                  read.metadata, NoMark)
                        ELSE Call(fn, "returned", args, req, resp.err, written.task,
                                  written.err, NoPayload, NoMark)]
    /\ UNCHANGED <<store, tasks, mark, call, receiver>>

CallersNext ==
    \E c \in Callers :
       \/ getMetadataByKeySent(c)
       \/ getMetadataSent(c)
       \/ addMetadataSent(c)
       \/ mergeAllMetadataSent(c)
       \/ deleteMetadataSent(c)
       \/ Returns(c)

SpecCallers == Init /\ [][CallersNext]_vars

----------------------------------------------------------------------------
(* The public methods of the resource types (lines 27-730).  Each method   *)
(* picks the href it hands to a generic function: the HREF the object      *)
(* stores, that HREF through getAdminURL, or an href built from the base   *)
(* URL of the client and the UUID of the object's ID.  A method is two     *)
(* steps, as a generic function is: the request is sent, and the answer    *)
(* arrives; a synchronous method then waits on the Task it was given.      *)

ResourceTypes ==
    {"VCDClient", "VM", "Vdc", "AdminVdc", "ProviderVdc", "VApp", "VAppTemplate",
     "MediaRecord", "Media", "Catalog", "AdminCatalog", "Org", "AdminOrg", "Disk",
     "OrgVDCNetwork", "CatalogItem", "OpenApiOrgVdcNetwork"}

\* Types with read methods only.
ReadOnlyTypes == {"Vdc", "Catalog", "Org"}
\* Types with the asynchronous variants of Add, Merge and Delete.
AsyncTypes == ResourceTypes \ (ReadOnlyTypes \cup {"OpenApiOrgVdcNetwork"})
\* Types with the synchronous variants of Add and Delete, and of Merge.
SyncTypes == ResourceTypes \ ReadOnlyTypes
MergeSyncTypes == SyncTypes \ {"VCDClient"}

\* client.VCDHREF, the two forms of the href of one entity, and its ID.
VCDHREF == <<"https://vcd", "/", "api">>
Uuid == "id-1"
PlainHref == VCDHREF \o <<"/", "vdc", "/", Uuid>>
AdminHref == VCDHREF \o <<"/", "admin", "/", "vdc", "/", Uuid>>
NoHref == <<>>
Urn == <<"urn", "vcloud", "network", Uuid>>

\* The objects methods are called on.  OpenApiOrgVdcNetwork has an ID and
\* no HREF; for VCDClient the HREF is the href argument of its ByHref
\* methods.
Receivers ==
    { r \in [type : ResourceTypes, HREF : {PlainHref, AdminHref, NoHref}, ID : {Urn}] :
        (r.type = "OpenApiOrgVdcNetwork") <=> (r.HREF = NoHref) }

ContainsSeq(s, sub) ==
    \E i \in 1..(Len(s) - Len(sub) + 1) : SubSeq(s, i, i + Len(sub) - 1) = sub

RECURSIVE ReplaceAll(_, _, _)
ReplaceAll(s, old, new) ==
    IF Len(s) < Len(old) THEN s
    ELSE IF SubSeq(s, 1, Len(old)) = old
    THEN new \o ReplaceAll(SubSeq(s, Len(old) + 1, Len(s)), old, new)
    ELSE <<Head(s)>> \o ReplaceAll(Tail(s), old, new)

\* getAdminURL: /api/ becomes /api/admin/ unless the href is an admin href.
SlashApiSlash == <<"/", "api", "/">>
SlashApiAdminSlash == <<"/", "api", "/", "admin", "/">>
getAdminURL(href) ==
    IF ContainsSeq(href, SlashApiAdminSlash) THEN href
    ELSE ReplaceAll(href, SlashApiSlash, SlashApiAdminSlash)

\* extractUuid: the UUID at the end of a URN.
extractUuid(id) == id[Len(id)]

\* fmt.Sprintf("%s/network/%s", ...) and fmt.Sprintf("%s/admin/network/%s", ...)
NetworkHref(r) == VCDHREF \o <<"/", "network", "/", extractUuid(r.ID)>>
AdminNetworkHref(r) == VCDHREF \o <<"/", "admin", "/", "network", "/", extractUuid(r.ID)>>

\* The href each family of methods hands to its generic function.
ReadHref(r) ==
    IF r.type = "OpenApiOrgVdcNetwork" THEN NetworkHref(r) ELSE r.HREF

AddAsyncHref(r) ==
    IF r.type = "OrgVDCNetwork" THEN getAdminURL(r.HREF) ELSE r.HREF

\* Variant: the Add of OpenApiOrgVdcNetwork builds the href its reads build.
AddHref_ReadHref(r) ==
    IF r.type = "OrgVDCNetwork" THEN getAdminURL(r.HREF)
    ELSE IF r.type = "OpenApiOrgVdcNetwork" THEN NetworkHref(r)
    ELSE r.HREF

AddHref(r) ==
    IF r.type = "OrgVDCNetwork" THEN getAdminURL(r.HREF)
    ELSE IF r.type = "OpenApiOrgVdcNetwork" THEN AdminNetworkHref(r)
    ELSE r.HREF

MergeAsyncHref(r) ==
    IF r.type = "OrgVDCNetwork" THEN getAdminURL(r.HREF) ELSE r.HREF

MergeHref(r) ==
    IF r.type = "OrgVDCNetwork" THEN getAdminURL(r.HREF)
    ELSE IF r.type = "OpenApiOrgVdcNetwork" THEN AdminNetworkHref(r)
    ELSE r.HREF

DeleteAsyncHref(r) ==
    IF r.type = "OrgVDCNetwork" THEN getAdminURL(r.HREF) ELSE r.HREF

DeleteHref(r) ==
    IF r.type \in {"OrgVDCNetwork", "AdminVdc"} THEN getAdminURL(r.HREF)
    ELSE IF r.type = "OpenApiOrgVdcNetwork" THEN AdminNetworkHref(r)
    ELSE r.HREF

\* One call of a method: the method, the generic function it calls,
\* whether it waits on the Task, and the call of the generic function.
MethodCall(method, fn, waits, pc, args, req, task, err, out) ==
    [method |-> method, fn |-> fn, waits |-> waits, pc |-> pc, args |-> args,
     req |-> req, task |-> task, err |-> err, out |-> out]

NoMethodCall ==
    MethodCall("none", "none", FALSE, "idle", NoArgs, NoRequest, NoTask, NoError, NoPayload)

Invoked(c, method, fn, waits, args, req) ==
    [calls EXCEPT ![c] = MethodCall(method, fn, waits, "sent", args, req, NoTask, NoError,
                                    NoPayload)]

\* The methods whose body waits on the Task itself instead of calling an
\* AndWait function: ByHref methods of the client, and OpenApiOrgVdcNetwork.
WaitsInline(r) == r.type \in {"VCDClient", "OpenApiOrgVdcNetwork"}

FacadeKeys == {"env"}
FacadeMergeMaps == { m \in SysMergeMaps : Cardinality(DOMAIN m) = 2 }

FacadeInit ==
    /\ store \in InitialStores
    /\ tasks = <<>>
    /\ mark = [s \in Slots |-> NoMark]
    /\ call = IdleCall
    /\ calls = [c \in Callers |-> NoMethodCall]
    /\ receiver \in Receivers

GetMetadataByKey(c) ==
    /\ calls[c].pc # "sent"
    /\ \E key \in FacadeKeys, isSystem \in BOOLEAN :
         LET href == ReadHref(receiver)
         IN calls' = Invoked(c, "GetMetadataByKey", "getMetadataByKey", FALSE,
                             Args(href, key, "", "", "", isSystem, MergeEmpty),
                             getMetadataByKeyRequest(href, key, isSystem))
    /\ UNCHANGED <<store, tasks, mark, call, receiver>>

GetMetadata(c) ==
    /\ calls[c].pc # "sent"
    /\ LET href == ReadHref(receiver)
       IN calls' = Invoked(c, "GetMetadata", "getMetadata", FALSE,
                           Args(href, "", "", "", "", FALSE, MergeEmpty),
                           getMetadataRequest(href))
    /\ UNCHANGED <<store, tasks, mark, call, receiver>>

AddMetadataEntryWithVisibilityAsync(c) ==
    /\ calls[c].pc # "sent"
    /\ receiver.type \in AsyncTypes
    /\ \E key \in FacadeKeys, isSystem \in BOOLEAN :
         LET href == AddAsyncHref(receiver)
         IN calls' = Invoked(c, "AddMetadataEntryWithVisibilityAsync", "addMetadata", FALSE,
                             Args(href, key, "prod", "MetadataStringValue",
                                  MetadataReadOnlyVisibility, isSystem, MergeEmpty),
                             addMetadataRequest(href, key, "prod", "MetadataStringValue",
                                                MetadataReadOnlyVisibility, isSystem))
    /\ UNCHANGED <<store, tasks, mark, call, receiver>>

AddMetadataEntryWithVisibility(c) ==
    /\ calls[c].pc # "sent"
    /\ receiver.type \in SyncTypes
    /\ \E key \in FacadeKeys, isSystem \in BOOLEAN :
         LET href == AddHref(receiver)
         IN calls' = Invoked(c, "AddMetadataEntryWithVisibility",
                             IF WaitsInline(receiver) THEN "addMetadata"
                             ELSE "addMetadataAndWait", TRUE,
                             Args(href, key, "prod", "MetadataStringValue",
                                  MetadataReadOnlyVisibility, isSystem, MergeEmpty),
                             addMetadataRequest(href, key, "prod", "MetadataStringValue",
                                                MetadataReadOnlyVisibility, isSystem))
    /\ UNCHANGED <<store, tasks, mark, call, receiver>>

MergeMetadataWithMetadataValuesAsync(c) ==
    /\ calls[c].pc # "sent"
    /\ receiver.type \in AsyncTypes
    /\ \E metadata \in FacadeMergeMaps :
         \E order \in Orders(metadata) :
            LET href == MergeAsyncHref(receiver)
            IN calls' = Invoked(c, "MergeMetadataWithMetadataValuesAsync", "mergeAllMetadata",
                                FALSE, Args(href, "", "", "", "", FALSE, metadata),
                                mergeAllMetadataRequest(href, metadata, order))
    /\ UNCHANGED <<store, tasks, mark, call, receiver>>

MergeMetadataWithMetadataValues(c) ==
    /\ calls[c].pc # "sent"
    /\ receiver.type \in MergeSyncTypes
    /\ \E metadata \in FacadeMergeMaps :
         \E order \in Orders(metadata) :
            LET href == MergeHref(receiver)
            IN calls' = Invoked(c, "MergeMetadataWithMetadataValues",
                                IF WaitsInline(receiver) THEN "mergeAllMetadata"
                                ELSE "mergeMetadataAndWait", TRUE,
                                Args(href, "", "", "", "", FALSE, metadata),
                                mergeAllMetadataRequest(href, metadata, order))
    /\ UNCHANGED <<store, tasks, mark, call, receiver>>

DeleteMetadataEntryWithDomainAsync(c) ==
    /\ calls[c].pc # "sent"
    /\ receiver.type \in AsyncTypes
    /\ \E key \in FacadeKeys, isSystem \in BOOLEAN :
         LET href == DeleteAsyncHref(receiver)
         IN calls' = Invoked(c, "DeleteMetadataEntryWithDomainAsync", "deleteMetadata", FALSE,
                             Args(href, key, "", "", "", isSystem, MergeEmpty),
                             deleteMetadataRequest(href, key, isSystem))
    /\ UNCHANGED <<store, tasks, mark, call, receiver>>

DeleteMetadataEntryWithDomain(c) ==
    /\ calls[c].pc # "sent"
    /\ receiver.type \in SyncTypes
    /\ \E key \in FacadeKeys, isSystem \in BOOLEAN :
         LET href == DeleteHref(receiver)
         IN calls' = Invoked(c, "DeleteMetadataEntryWithDomain",
                             IF WaitsInline(receiver) THEN "deleteMetadata"
                             ELSE "deleteMetadataAndWait", TRUE,
                             Args(href, key, "", "", "", isSystem, MergeEmpty),
                             deleteMetadataRequest(href, key, isSystem))
    /\ UNCHANGED <<store, tasks, mark, call, receiver>>

\* if err != nil { return err }; return task.WaitTaskCompletion()
InlineWaitResult(r) ==
    IF r.err # NoError
    THEN [pc |-> "returned", task |-> NoTask, err |-> r.err]
    ELSE [pc |-> "waiting", task |-> r.task, err |-> NoError]

\* The answer to the request of caller c arrives: an asynchronous method
\* returns the Task and the error, a synchronous one the error, or goes on
\* to wait on the Task.
MethodReturns(c) ==
    /\ calls[c].pc = "sent"
    /\ \E resp \in CallersResponses(calls[c].fn) :
         LET m == calls[c]
             read == IF m.fn = "getMetadataByKey" THEN getMetadataByKeyResult(m.req, resp)
                     ELSE getMetadataResult(m.req, resp)
             r == IF m.fn \in {"addMetadata", "addMetadataAndWait"}
                  THEN addMetadataResult(m.args.key, m.args.visibility, m.req, resp)
                  ELSE IF m.fn \in {"mergeAllMetadata", "mergeMetadataAndWait"}
                  THEN mergeAllMetadataResult(m.req, resp)
                  ELSE deleteMetadataResult(m.req, resp)
             w == IF m.fn = "addMetadataAndWait" THEN addMetadataAndWaitResult(r)
                  ELSE IF m.fn = "mergeMetadataAndWait" THEN mergeMetadataAndWaitResult(r)
                  ELSE IF m.fn = "deleteMetadataAndWait" THEN deleteMetadataAndWaitResult(r)
                  ELSE InlineWaitResult(r)
         IN calls' = [calls EXCEPT ![c] =
                        IF m.fn \in {"getMetadataByKey", "getMetadata"}
                        THEN [m EXCEPT !.pc = "returned", !.err = read.err,
                                       !.out = read.metadata]
                        ELSE IF m.waits
                        THEN [m EXCEPT !.pc = w.pc, !.task = w.task, !.err = w.err]
                        ELSE [m EXCEPT !.pc = "returned", !.task = r.task, !.err = r.err]]
    /\ UNCHANGED <<store, tasks, mark, call, receiver>>

FacadeNext ==
    \E c \in Callers :
       \/ GetMetadataByKey(c)
       \/ GetMetadata(c)
       \/ AddMetadataEntryWithVisibilityAsync(c)
       \/ AddMetadataEntryWithVisibility(c)
       \/ MergeMetadataWithMetadataValuesAsync(c)
       \/ MergeMetadataWithMetadataValues(c)
       \/ DeleteMetadataEntryWithDomainAsync(c)
       \/ DeleteMetadataEntryWithDomain(c)
       \/ MethodReturns(c)

SpecFacade == FacadeInit /\ [][FacadeNext]_vars

----------------------------------------------------------------------------
(* Properties                                                              *)

ReadWriteGeneral == [Visibility |-> MetadataReadWriteVisibility, Domain |-> "GENERAL"]

VisibilitySuffix == <<"visibility">>

\* The error of the request of the current call, as ExecuteRequest or
\* ExecuteTaskRequest hands it to the layer.
RequestError == ExecuteError(call.req.errorMessage, call.raw)

AddFns == {"addMetadata", "addMetadataAndWait"}
SyncFns == {"addMetadataAndWait", "mergeMetadataAndWait", "deleteMetadataAndWait"}

\* C1: Add with isSystem=false sends a PUT to <href>/metadata/<key> whose
\* body has domain GENERAL and visibility READWRITE, and the request is the
\* same for every visibility argument.
C1_AddGeneralRequest ==
    (call.fn = "addMetadata" /\ ~call.args.isSystem) =>
        /\ call.req.method = MethodPut
        /\ call.req.url = call.args.requestUri \o <<"/", "metadata", "/", call.args.key>>
        /\ call.req.payload.Domain = ReadWriteGeneral
        /\ \A v \in Visibilities :
              addMetadataRequest(call.args.requestUri, call.args.key, call.args.value,
                                 call.args.typedValue, v, FALSE) = call.req

C1_Witness ==
    /\ call.fn = "addMetadata" /\ call.pc = "returned"
    /\ ~call.args.isSystem
    /\ call.args.visibility = MetadataHiddenVisibility
    /\ call.req.payload.Domain.Visibility = MetadataReadWriteVisibility

\* C2: Add with isSystem=true sends a PUT to <href>/metadata/SYSTEM/<key>
\* whose body has domain SYSTEM and the caller's visibility unchanged; no
\* visibility is refused by the client: an accepted request yields its Task.
C2_AddSystemRequest ==
    (call.fn = "addMetadata" /\ call.args.isSystem) =>
        /\ call.req.method = MethodPut
        /\ call.req.url =
              call.args.requestUri \o <<"/", "metadata", "/", "SYSTEM", "/", call.args.key>>
        /\ call.req.payload.Domain = [Visibility |-> call.args.visibility, Domain |-> "SYSTEM"]
        /\ call.raw = NoError => (call.err = NoError /\ call.task # NoTask)

C2_Witness ==
    /\ call.fn = "addMetadata" /\ call.pc = "returned"
    /\ call.args.isSystem
    /\ call.args.visibility = MetadataReadWriteVisibility
    /\ call.req.payload.Domain.Visibility = MetadataReadWriteVisibility
    /\ call.task # NoTask

\* C3: when the request of Add fails with an error ending in "visibility",
\* the error Add returns contains the key, the requested visibility and the
\* resolved domain (SYSTEM or GENERAL).
C3_ErrorNamesKeyVisibilityDomain ==
    (call.fn = "addMetadata" /\ call.raw # NoError /\ HasSuffix(RequestError, VisibilitySuffix)) =>
        /\ Contains(call.err, call.args.key)
        /\ Contains(call.err, call.args.visibility)
        /\ Contains(call.err, DomainOf(call.args.isSystem))

\* C4: Add returns an error of its request that does not end in
\* "visibility" unchanged; Merge, Delete, ReadOne and ReadAll return every
\* error of their request unchanged.
C4_ErrorsUnchanged ==
    /\ (call.fn = "addMetadata" /\ call.raw # NoError
           /\ ~HasSuffix(RequestError, VisibilitySuffix)) =>
          (call.err = RequestError /\ call.task = NoTask)
    /\ call.fn \in {"mergeAllMetadata", "deleteMetadata", "getMetadataByKey", "getMetadata"} =>
          call.err = RequestError

C4_Witness ==
    /\ call.fn = "addMetadata" /\ call.pc = "returned"
    /\ call.raw = ErrForbidden
    /\ call.err = <<"error adding metadata:">> \o ErrForbidden

\* C5: a synchronous Add, Merge or Delete whose request was accepted has not
\* returned while its Task is Created or Running; it returns success only
\* if the Task Succeeded and an error if the Task Failed.
C5_WaitUntilTerminal ==
    (call.fn \in SyncFns /\ call.raw = NoError /\ call.pc = "returned") =>
        /\ call.task \in 1..Len(tasks)
        /\ ~isTaskRunning(tasks[call.task].status)
        /\ call.err = NoError <=> tasks[call.task].status = TaskSucceeded

C5_Witness ==
    /\ call.fn = "deleteMetadataAndWait" /\ call.pc = "returned"
    /\ call.raw = NoError
    /\ call.task \in 1..Len(tasks)
    /\ tasks[call.task].status = TaskFailed
    /\ call.err # NoError

C8_SystemReadWriteRejected ==
    /\ (call.fn \in AddFns /\ call.args.isSystem
           /\ call.args.visibility = MetadataReadWriteVisibility) =>
          /\ call.pc = "returned"
          /\ call.task = NoTask
          /\ call.err # NoError
          /\ Contains(call.err, call.args.key)
    /\ \A s \in Slots :
          (s[2] = "SYSTEM" /\ store[s] # NoEntry) =>
              store[s].Domain.Visibility # MetadataReadWriteVisibility

C8_Witness ==
    /\ call.fn = "addMetadataAndWait" /\ call.pc = "returned"
    /\ call.args.isSystem
    /\ call.args.visibility = MetadataReadWriteVisibility
    /\ call.args.key = "secret"
    /\ Contains(call.err, "secret")
    /\ HasSuffix(call.err, VisibilitySuffix)

GeneralIsReadWrite(tag) ==
    tag.Domain = "GENERAL" => tag.Visibility = MetadataReadWriteVisibility

PutGeneralIsReadWrite(req) ==
    req.method = MethodPut => GeneralIsReadWrite(req.payload.Domain)

PostGeneralIsReadWrite(req) ==
    req.method = MethodPost =>
        \A i \in 1..Len(req.payload.MetadataEntry) :
            GeneralIsReadWrite(req.payload.MetadataEntry[i].Domain)

\* C9 (as stated): no write request, of Add or of Merge, leaves the layer
\* with domain GENERAL and a visibility other than READWRITE.
C9_NoGeneralWriteOtherThanReadWrite ==
    /\ PutGeneralIsReadWrite(call.req)
    /\ PostGeneralIsReadWrite(call.req)
    /\ \A i \in 1..Len(tasks) :
          PutGeneralIsReadWrite(tasks[i].req) /\ PostGeneralIsReadWrite(tasks[i].req)

\* C9 (amended): no request of Add, sent or accepted, carries domain
\* GENERAL with a visibility other than READWRITE.
C9_NoGeneralAddOtherThanReadWrite ==
    /\ PutGeneralIsReadWrite(call.req)
    /\ \A i \in 1..Len(tasks) : PutGeneralIsReadWrite(tasks[i].req)

C9_Witness ==
    /\ call.fn = "addMetadataAndWait"
    /\ ~call.args.isSystem
    /\ call.args.visibility = MetadataReadOnlyVisibility
    /\ call.task \in 1..Len(tasks)
    /\ tasks[call.task].req.method = MethodPut
    /\ tasks[call.task].req.payload.Domain = ReadWriteGeneral

\* C10: Merge with an empty map sends a POST to <href>/metadata with zero
\* entries, and returns the Task and no error when the request is accepted.
C10_MergeEmptyMap ==
    (call.fn = "mergeAllMetadata" /\ DOMAIN call.args.metadata = {}) =>
        /\ call.req.method = MethodPost
        /\ call.req.url = call.args.requestUri \o <<"/", "metadata">>
        /\ Len(call.req.payload.MetadataEntry) = 0
        /\ call.raw = NoError => (call.task # NoTask /\ call.err = NoError)

C10_Witness ==
    /\ call.fn = "mergeAllMetadata" /\ call.pc = "returned"
    /\ DOMAIN call.args.metadata = {}
    /\ call.req.payload.MetadataEntry = <<>>
    /\ call.task # NoTask
    /\ call.err = NoError

\* C11: the payload of a Merge holds exactly one entry per item of the
\* caller's map and no other entry; each entry has the key of its item and
\* the item's typed value and domain tag unchanged, so a GENERAL item with
\* a visibility other than READWRITE is sent as it was given.
C11_MergePayloadIsTheMap ==
    (call.fn = "mergeAllMetadata") =>
        LET entries == call.req.payload.MetadataEntry
            metadata == call.args.metadata
        IN /\ Len(entries) = Cardinality(DOMAIN metadata)
           /\ \A i \in 1..Len(entries) :
                 /\ entries[i].Key \in DOMAIN metadata
                 /\ entries[i].TypedValue = metadata[entries[i].Key].TypedValue
                 /\ entries[i].Domain = metadata[entries[i].Key].Domain
           /\ \A k \in DOMAIN metadata :
                 Cardinality({i \in 1..Len(entries) : entries[i].Key = k}) = 1

C11_Witness ==
    /\ call.fn = "mergeAllMetadata"
    /\ Len(call.req.payload.MetadataEntry) = 1
    /\ call.args.metadata["env"].Domain =
           [Visibility |-> MetadataReadOnlyVisibility, Domain |-> "GENERAL"]
    /\ call.req.payload.MetadataEntry[1].Key = "env"
    /\ call.req.payload.MetadataEntry[1].Domain =
           [Visibility |-> MetadataReadOnlyVisibility, Domain |-> "GENERAL"]

MergeFns == {"mergeAllMetadata", "mergeMetadataAndWait"}

\* The awaited Task of the current synchronous call succeeds in this step.
AwaitedSucceeds(fn) ==
    /\ call.fn = fn /\ call.pc = "waiting"
    /\ tasks[call.task].status = TaskRunning
    /\ tasks'[call.task].status = TaskSucceeded

C12_MergedEntriesHold ==
    /\ \A s \in Slots :
          mark[s].fn = "mergeMetadataAndWait" => store[s] = mark[s].args.metadata[s[3]]
    /\ (call.fn = "getMetadataByKey" /\ call.seen.fn = "mergeMetadataAndWait") =>
          /\ call.err = NoError
          /\ call.out = call.seen.args.metadata[call.args.key]

C12_MergeStep ==
    AwaitedSucceeds("mergeMetadataAndWait") =>
        \A s \in Slots :
           IF s \in Meant(call.fn, call.args)
           THEN store'[s] = call.args.metadata[s[3]]
           ELSE s[3] \notin DOMAIN call.args.metadata => store'[s] = store[s]

\* C12: when the Task of a synchronous Merge succeeds, every key of the
\* map holds the value the caller supplied (an existing entry updated, an
\* absent one created) and every entry whose key is not in the map is as
\* it was; a read of such a key, as long as no other mutation touched it,
\* returns the supplied value.
C12_MergeUpsertAndFrame == []C12_MergedEntriesHold /\ [][C12_MergeStep]_vars

C12_Witness ==
    /\ call.fn = "mergeMetadataAndWait" /\ call.pc = "returned" /\ call.err = NoError
    /\ DOMAIN call.args.metadata = {"env"}
    /\ \E h \in SysHrefs :
          /\ call.args.requestUri = h
          /\ mark[<<h, "GENERAL", "env">>].fn = "mergeMetadataAndWait"
          /\ store[<<h, "GENERAL", "env">>] = call.args.metadata["env"]
          /\ store[<<h, "GENERAL", "env">>].TypedValue.Value = "prod"
          /\ store[<<h, "SYSTEM", "secret">>] # NoEntry

\* A call of one of the functions fns starts in this step.
Starts(fns) == call.pc # "waiting" /\ call' # call /\ call'.fn \in fns

C13_OnePostOneOutcome ==
    call.fn \in MergeFns =>
        /\ call.sent = <<call.req>>
        /\ call.req.method = MethodPost
        /\ call.req.url = call.args.requestUri \o <<"/", "metadata">>
        /\ call.raw # NoError => (call.pc = "returned" /\ call.task = NoTask
                                    /\ call.err # NoError)
        /\ call.raw = NoError => call.task \in 1..Len(tasks)
        /\ (call.pc = "returned" /\ call.raw = NoError /\ call.fn = "mergeMetadataAndWait") =>
              /\ tasks[call.task].status \in {TaskSucceeded, TaskFailed}
              /\ call.err = NoError <=> tasks[call.task].status = TaskSucceeded

C13_MergeStep ==
    /\ Starts(MergeFns) =>
          /\ store' = store
          /\ Len(tasks') = Len(tasks) + (IF call'.raw = NoError THEN 1 ELSE 0)
    /\ \A i \in 1..Len(tasks) :
          (tasks[i].status = TaskRunning /\ tasks[i].req.method = MethodPost) =>
             /\ tasks'[i].status = TaskFailed => store' = store
             /\ tasks'[i].status = TaskSucceeded =>
                   \A j \in 1..Len(tasks[i].req.payload.MetadataEntry) :
                      LET e == tasks[i].req.payload.MetadataEntry[j] IN
                      store'[<<Route(tasks[i].req.url).href, e.Domain.Domain, e.Key>>] =
                         [TypedValue |-> e.TypedValue, Domain |-> e.Domain]

\* C13: a Merge call hands exactly one request to the execution client, a
\* POST to <href>/metadata with no key segment.  The call either fails with
\* one error and no Task is created, or creates exactly one Task; that
\* Task applies every entry of the batch when it succeeds and none when it
\* fails, and the synchronous variant returns no error exactly when the
\* Task succeeded.
C13_MergeOneTaskAsAWhole == []C13_OnePostOneOutcome /\ [][C13_MergeStep]_vars

C13_Witness ==
    /\ call.fn = "mergeMetadataAndWait" /\ call.pc = "returned"
    /\ call.raw = NoError /\ call.err # NoError
    /\ call.req.url = call.args.requestUri \o <<"/", "metadata">>
    /\ tasks[call.task].status = TaskFailed
    /\ DOMAIN call.args.metadata = {"env"}
    /\ store[<<call.args.requestUri, "GENERAL", "env">>] # call.args.metadata["env"]

\* The entry an Add with arguments args writes.
Added(args) ==
    MV(args.value, args.typedValue,
       IF args.isSystem THEN args.visibility ELSE MetadataReadWriteVisibility,
       DomainOf(args.isSystem))

C14_LaterAddWins ==
    \A s \in Slots :
       (mark[s].fn = "addMetadataAndWait" /\ mark[s].over.fn = "addMetadataAndWait") =>
          /\ store[s] = Added(mark[s].args)
          /\ Cardinality({ e \in Collection(store, s[1]).MetadataEntry :
                             e.Key = s[3] /\ e.Domain.Domain = s[2] }) = 1

C14_RepeatedAddStep ==
    AwaitedSucceeds("addMetadataAndWait") =>
        \A s \in Meant(call.fn, call.args) :
           (mark[s].fn = "addMetadataAndWait" /\ mark[s].args = call.args) => store' = store

\* C14: after two successful synchronous Adds of a key in a domain, with
\* no other mutation of that entry since, the resource holds exactly one
\* entry for the key in the domain and it is the entry of the later Add;
\* when the later Add has the arguments of the earlier one, it leaves the
\* whole metadata set as it was.
C14_AddOverwrites == []C14_LaterAddWins /\ [][C14_RepeatedAddStep]_vars

C14_Witness ==
    /\ call.fn = "addMetadataAndWait" /\ call.pc = "returned" /\ call.err = NoError
    /\ \E s \in Meant(call.fn, call.args) :
          /\ mark[s].fn = "addMetadataAndWait" /\ mark[s].args = call.args
          /\ mark[s].over.fn = "addMetadataAndWait"
          /\ mark[s].over.args.value # call.args.value
          /\ store[s].TypedValue.Value = call.args.value

DeleteFns == {"deleteMetadata", "deleteMetadataAndWait"}

C15_SecondDeleteFails ==
    (call.fn \in DeleteFns /\ call.seen.fn = "deleteMetadataAndWait") =>
        /\ call.pc = "returned"
        /\ call.err # NoError
        /\ call.task = NoTask

C15_DeleteAbsentStep ==
    (Starts(DeleteFns)
        /\ store[<<call'.args.requestUri, DomainOf(call'.args.isSystem), call'.args.key>>]
              = NoEntry) =>
        /\ call'.pc = "returned"
        /\ call'.err # NoError
        /\ call'.task = NoTask
        /\ tasks' = tasks
        /\ store' = store

\* C15: a Delete of a key that is absent in the addressed domain returns
\* an error, creates no Task and leaves the metadata set unchanged; so a
\* Delete of the entry a successful synchronous Delete has just removed
\* fails.
C15_DeleteIsNotIdempotent == []C15_SecondDeleteFails /\ [][C15_DeleteAbsentStep]_vars

C15_Witness ==
    /\ call.fn = "deleteMetadataAndWait" /\ call.pc = "returned"
    /\ call.seen.fn = "deleteMetadataAndWait"
    /\ call.seen.args = call.args
    /\ call.err # NoError
    /\ call.task = NoTask
    /\ store[<<call.args.requestUri, DomainOf(call.args.isSystem), call.args.key>>] = NoEntry

MutationFns == AddFns \cup MergeFns \cup DeleteFns

C16_TaskStates ==
    /\ \A i \in 1..Len(tasks) :
          tasks[i].status \in {TaskCreated, TaskRunning, TaskSucceeded, TaskFailed}
    /\ call.task # NoTask =>
          (call.fn \in MutationFns /\ call.raw = NoError /\ call.task \in 1..Len(tasks))

C16_TaskStep ==
    /\ Len(tasks') >= Len(tasks)
    /\ \A i \in 1..Len(tasks) :
          \/ tasks'[i].status = tasks[i].status
          \/ tasks[i].status = TaskCreated /\ tasks'[i].status = TaskRunning
          \/ tasks[i].status = TaskRunning /\ tasks'[i].status \in {TaskSucceeded, TaskFailed}
    /\ Len(tasks') > Len(tasks) =>
          /\ Len(tasks') = Len(tasks) + 1
          /\ tasks'[Len(tasks')].status = TaskCreated
          /\ Starts(MutationFns)
          /\ call'.raw = NoError
          /\ call'.task = Len(tasks')
          /\ call'.req.method \in {MethodPut, MethodPost, MethodDelete}
          /\ tasks'[Len(tasks')].req = call'.req

\* C16: a Task is Created, then Running, then Succeeded or Failed, and
\* moves in no other way: a terminal Task keeps its state, so no Task is
\* ever both Succeeded and Failed.  A Task comes into being only in the
\* step in which a write or delete request of the layer is accepted, and
\* it is the Task that call returns.
C16_TaskLifecycle == []C16_TaskStates /\ [][C16_TaskStep]_vars

C16_Witness ==
    /\ Len(tasks) = 2
    /\ tasks[1].status = TaskSucceeded
    /\ tasks[2].status = TaskFailed
    /\ call.fn \in MutationFns /\ call.task = 2

C17_OneRequest ==
    call.fn # "none" =>
        /\ call.sent = <<call.req>>
        /\ call.fn \notin SyncFns => call.pc = "returned"
        /\ call.raw # NoError =>
              (call.pc = "returned" /\ call.err # NoError /\ call.task = NoTask)

C17_WaitStep ==
    call.pc = "waiting" =>
        /\ call'.fn = call.fn /\ call'.args = call.args
        /\ call'.sent = call.sent
        /\ Len(tasks') = Len(tasks)
        /\ call' # call =>
              (store' = store /\ tasks' = tasks /\ call'.pc = "returned"
                 /\ tasks[call.task].status \in {TaskSucceeded, TaskFailed})

UniquePerDomainAndKey(entries) ==
    \A e1, e2 \in entries :
       (e1.Key = e2.Key /\ e1.Domain.Domain = e2.Domain.Domain) => e1 = e2

\* C18: the metadata set of a resource, as the server holds it and as a
\* ReadAll returns it, has at most one entry for a key within a domain;
\* the key of a SYSTEM entry can also be the key of a GENERAL entry.
C18_OneEntryPerDomainAndKey ==
    /\ \A h \in Existing : UniquePerDomainAndKey(Collection(store, h).MetadataEntry)
    /\ (call.fn = "getMetadata" /\ call.err = NoError) =>
          UniquePerDomainAndKey(call.out.MetadataEntry)

C18_Witness ==
    /\ call.fn = "getMetadata" /\ call.err = NoError
    /\ \E e1, e2 \in call.out.MetadataEntry :
          /\ e1.Key = "env" /\ e1.Domain.Domain = "GENERAL"
          /\ e2.Key = "env" /\ e2.Domain.Domain = "SYSTEM"
    /\ store[<<call.args.requestUri, "GENERAL", "env">>] # NoEntry
    /\ store[<<call.args.requestUri, "SYSTEM", "env">>] # NoEntry

\* The error the asynchronous variant returns for the request and answer
\* of the current call.
AsyncErr ==
    LET resp == Response(NoTask, call.raw, NoPayload) IN
    IF call.fn \in AddFns
    THEN addMetadataResult(call.args.key, call.args.visibility, call.req, resp).err
    ELSE IF call.fn \in MergeFns
    THEN mergeAllMetadataResult(call.req, resp).err
    ELSE deleteMetadataResult(call.req, resp).err

C20_FailedRequestOfWrapper ==
    call.fn \in SyncFns =>
        /\ call.raw # NoError =>
              /\ call.pc = "returned"
              /\ call.task = NoTask
              /\ call.err # NoError
              /\ call.err = AsyncErr
        /\ (call.raw = NoError /\ call.pc = "returned" /\ call.err # NoError) =>
              /\ tasks[call.task].status = TaskFailed
              /\ call.err = WaitTaskCompletion(TaskFailed)

C20_FailedRequestStep ==
    (Starts(SyncFns) /\ call'.raw # NoError) =>
        (tasks' = tasks /\ store' = store /\ call'.pc = "returned")

\* C20: when the request of a synchronous Add, Merge or Delete fails, the
\* wrapper returns at once the error the asynchronous variant returns for
\* that failure, with no Task created and no wait; every other error a
\* wrapper returns is the failure of its Task.
C20_WrapperReturnsRequestError ==
    []C20_FailedRequestOfWrapper /\ [][C20_FailedRequestStep]_vars

C20_Witness ==
    /\ call.fn = "mergeMetadataAndWait" /\ call.pc = "returned"
    /\ call.raw # NoError
    /\ call.err = ExecuteError(call.req.errorMessage, call.raw)
    /\ call.task = NoTask
    /\ tasks = <<>>

EntriesOf(req) ==
    { req.payload.MetadataEntry[i] : i \in 1..Len(req.payload.MetadataEntry) }

\* The same request, but for the order of the entries of a Merge payload.
SameUpToOrder(r1, r2) ==
    /\ r1.url = r2.url
    /\ r1.method = r2.method
    /\ r1.contentType = r2.contentType
    /\ IF r1.method = MethodPost /\ r2.method = MethodPost
       THEN /\ Len(r1.payload.MetadataEntry) = Len(r2.payload.MetadataEntry)
            /\ EntriesOf(r1) = EntriesOf(r2)
       ELSE r1.payload = r2.payload

C19_SameArgumentsSameRequest ==
    \A c, d \in Callers :
       (calls[c].fn = calls[d].fn /\ calls[c].args = calls[d].args) =>
          SameUpToOrder(calls[c].req, calls[d].req)

C19_CallersStep ==
    \A c \in Callers :
       calls'[c] # calls[c] =>
          /\ \A d \in Callers \ {c} : calls'[d] = calls[d]
          /\ calls[c].pc = "sent" =>
                /\ calls'[c].fn = calls[c].fn
                /\ calls'[c].args = calls[c].args
                /\ calls'[c].req = calls[c].req

C21_WaitingStaysWhileRunning ==
    (call.pc = "waiting" /\ tasks[call.task].status \in {TaskCreated, TaskRunning}) =>
        call' = call

\* C21: when the server is fair to its Tasks, a synchronous Add, Merge or
\* Delete that waits for its Task eventually returns; and in no step does a
\* waiting call return, or change at all, while its Task is Created or
\* Running, so a call whose Task never ends never returns.
C21_WaitReturnsIfTaskEnds ==
    /\ (call.pc = "waiting") ~> (call.pc = "returned" /\ call.fn \in SyncFns)
    /\ [][C21_WaitingStaysWhileRunning]_vars

C21_Witness ==
    /\ call.fn = "mergeMetadataAndWait" /\ call.pc = "returned"
    /\ call.raw = NoError /\ call.err = NoError
    /\ tasks[call.task].status = TaskSucceeded

\* The path <href>/metadata/[SYSTEM/]<key> of one entry.
EntryPath(requestUri, key, isSystem) ==
    IF isSystem THEN requestUri \o SlashMetadataSlashSystemSlash \o <<key>>
    ELSE requestUri \o SlashMetadataSlash \o <<key>>

SameEntryArgs(a, b) ==
    /\ a.requestUri = b.requestUri /\ a.key = b.key /\ a.isSystem = b.isSystem

\* C22: for every href, key and isSystem, a Delete sends DELETE with no
\* body to exactly the URL an Add with the same arguments sends its PUT to,
\* that URL addresses <href>/metadata/SYSTEM/<key> when isSystem and
\* <href>/metadata/<key> otherwise, and a ReadOne with the same arguments
\* addresses the same entry.
C22_DeleteAndReadOneMirrorAdd ==
    \A c, d \in Callers :
       (calls[c].fn = "addMetadata" /\ SameEntryArgs(calls[c].args, calls[d].args)) =>
          LET a == calls[c].args
              entry == EntryPath(a.requestUri, a.key, a.isSystem)
          IN /\ RequestPath(calls[c].req.url) = entry
             /\ calls[d].fn = "deleteMetadata" =>
                   /\ calls[d].req.url = calls[c].req.url
                   /\ calls[d].req.method = MethodDelete
                   /\ calls[d].req.payload = NoPayload
             /\ calls[d].fn = "getMetadataByKey" =>
                   RequestPath(calls[d].req.url) = entry

MutationMethods ==
    {"AddMetadataEntryWithVisibilityAsync", "AddMetadataEntryWithVisibility",
     "MergeMetadataWithMetadataValuesAsync", "MergeMetadataWithMetadataValues",
     "DeleteMetadataEntryWithDomainAsync", "DeleteMetadataEntryWithDomain"}

\* C23: the mutation methods of OrgVDCNetwork hand the generic function the
\* stored href with the /admin/ substitution applied, and no other resource
\* type applies it: every method of every other type that stores an href,
\* and the reads of OrgVDCNetwork, hand over the stored href unchanged.
C23_OnlyOrgVDCNetworkSubstitutes ==
    \A c \in Callers :
       (calls[c].pc # "idle" /\ receiver.type # "OpenApiOrgVdcNetwork") =>
          calls[c].args.requestUri =
             IF receiver.type = "OrgVDCNetwork" /\ calls[c].method \in MutationMethods
             THEN getAdminURL(receiver.HREF)
             ELSE receiver.HREF

\* The asynchronous variant of a synchronous mutation method.
AsyncOf(method) ==
    IF method = "AddMetadataEntryWithVisibility" THEN "AddMetadataEntryWithVisibilityAsync"
    ELSE IF method = "MergeMetadataWithMetadataValues"
    THEN "MergeMetadataWithMetadataValuesAsync"
    ELSE "DeleteMetadataEntryWithDomainAsync"

\* The arguments the caller passes to a method (the href is the receiver's).
SameMethodArgs(a, b) == [a EXCEPT !.requestUri = NoHref] = [b EXCEPT !.requestUri = NoHref]

\* C24: on one resource object, a synchronous Add, Merge or Delete sends
\* the same request (URL, verb and payload, the entries of a Merge payload
\* taken as a set) as the asynchronous variant called with the same
\* arguments; the synchronous one waits on the Task, the asynchronous one
\* returns it.
C24_SyncSendsWhatAsyncSends ==
    \A c, d \in Callers :
       (/\ calls[c].waits
        /\ calls[d].method = AsyncOf(calls[c].method)
        /\ SameMethodArgs(calls[c].args, calls[d].args)) =>
          /\ SameUpToOrder(calls[c].req, calls[d].req)
          /\ ~calls[d].waits
          /\ calls[d].pc # "waiting"

ReadMethods == {"GetMetadataByKey", "GetMetadata"}

\* C25 as stated: on an OpenApiOrgVdcNetwork every method builds its href
\* from the base URL and the UUID of the ID, and the href the reads use is
\* the href Add, Merge and Delete use.
C25_ReadHrefIsWrittenHref ==
    (receiver.type = "OpenApiOrgVdcNetwork") =>
       \A c, d \in Callers :
          (calls[c].method \in ReadMethods /\ calls[d].method \in MutationMethods) =>
             /\ IsPrefix(VCDHREF, calls[c].args.requestUri)
             /\ HasSuffix(calls[c].args.requestUri, <<extractUuid(receiver.ID)>>)
             /\ calls[d].args.requestUri = calls[c].args.requestUri

\* C25: on an OpenApiOrgVdcNetwork every method builds its href from the
\* base URL and the UUID of the ID: the reads use <base>/network/<uuid>,
\* and Add, Merge and Delete use <base>/admin/network/<uuid>, which is the
\* admin form of the href of the reads and not the same href.
C25_WrittenHrefIsAdminFormOfReadHref ==
    (receiver.type = "OpenApiOrgVdcNetwork") =>
       \A c, d \in Callers :
          (calls[c].method \in ReadMethods /\ calls[d].method \in MutationMethods) =>
             LET read == calls[c].args.requestUri
                 written == calls[d].args.requestUri
             IN /\ IsPrefix(VCDHREF, read) /\ IsPrefix(VCDHREF, written)
                /\ HasSuffix(read, <<"/", "network", "/", extractUuid(receiver.ID)>>)
                /\ HasSuffix(written, <<"/", "network", "/", extractUuid(receiver.ID)>>)
                /\ Len(read) = Len(VCDHREF) + 4
                /\ written = getAdminURL(read)
                /\ written # read

C25_Witness ==
    /\ receiver.type = "OpenApiOrgVdcNetwork"
    /\ calls[1].method = "GetMetadataByKey" /\ calls[1].pc = "returned"
    /\ calls[2].method = "AddMetadataEntryWithVisibility" /\ calls[2].pc = "waiting"
    /\ calls[1].args.key = calls[2].args.key
    /\ calls[1].args.isSystem = calls[2].args.isSystem

AddOrDeleteFns == AddFns \cup DeleteFns

\* The one entry an Add or Delete is about.
EntryOf(args) == <<args.requestUri, DomainOf(args.isSystem), args.key>>

C26_AddDeleteStep ==
    /\ (call' # call /\ call'.fn \in AddOrDeleteFns) => store' = store
    /\ \A i \in 1..Len(tasks) :
          (/\ call.fn \in AddOrDeleteFns /\ call.task = i
           /\ tasks[i].status = TaskRunning /\ tasks'[i].status = TaskSucceeded) =>
             /\ \A s \in Slots : s # EntryOf(call.args) => store'[s] = store[s]
             /\ store'[EntryOf(call.args)] =
                   IF call.fn \in AddFns THEN Added(call.args) ELSE NoEntry

\* C26: an Add or Delete changes the entry of its own (domain, key) and no
\* other: the call itself leaves the metadata set alone, and when its Task
\* succeeds the entry of the same key in the other domain, and every entry
\* of any other key, is what it was, for isSystem=false and isSystem=true.
C26_AddDeleteTouchOneEntry == [][C26_AddDeleteStep]_vars

C26_Witness ==
    /\ call.fn \in AddOrDeleteFns /\ call.args.key = "secret" /\ ~call.args.isSystem
    /\ call.task \in 1..Len(tasks) /\ tasks[call.task].status = TaskSucceeded
    /\ store[<<call.args.requestUri, "GENERAL", "secret">>] = Added(call.args)
    /\ store[<<call.args.requestUri, "SYSTEM", "secret">>] # NoEntry
    /\ store[<<call.args.requestUri, "GENERAL", "env">>] # NoEntry

====
